---- MODULE Spec2Model ----
(***************************************************************************)
(* A model of median_filter_uint16 (src/unnamed/part_000): the 2-D median  *)
(* filter over a row-major grid of uint16_t samples that keeps a sorted    *)
(* window and slides it along each row.                                    *)
(*                                                                         *)
(* Arrays are modelled as sequences; the C index k of an array a is the    *)
(* element a[k + 1].  One call of the function is one behaviour: the       *)
(* program counter pc walks through the statements of the function.        *)
(*                                                                         *)
(* Integer widths.  getp computes its index with int (32 bit) and size_t   *)
(* (64 bit) operands.  For the small extents of the model the value        *)
(* (int)(2 * extent - x - 2) is exactly the signed number 2*extent - x - 2 *)
(* (the subtraction wraps modulo 2^64 and the conversion to int wraps it   *)
(* back), and the size_t index r * width + c is the signed number          *)
(* r*width + c modulo 2^64.  A negative signed number therefore stands for *)
(* an index of at least 2^64 - (a small number), which is outside every    *)
(* grid: the model keeps the signed number and calls the access in range   *)
(* exactly when it lies in 0 .. width*height - 1.                          *)
(*                                                                         *)
(* Undefined behaviour.  A read of src outside the grid either ends the    *)
(* call abnormally (pc = "crashed") or yields whatever the memory there    *)
(* holds; that content is the unknown value junk, drawn when the call      *)
(* starts.  The fetch loop writes new_col[dr + half], which stays inside   *)
(* new_col for ksize <= NewColSize; larger ksize is not modelled.          *)
(***************************************************************************)
EXTENDS Integers, Sequences, FiniteSets, Bags, TLC

\* ---------------------------------------------------------------- bounds
\* Grids of the exhaustive specification have at most MaxCells samples,
\* each in 0 .. MaxVal, and are filtered with ksize in 0 .. MaxKsize.
MaxCells == 6
MaxVal == 1
MaxKsize == 3
\* Grids of the envelope specification have extents up to MaxEnvDim.
MaxEnvDim == 8
\* ... and are filled by the patterns 0 .. MaxSeed.
MaxSeed == 1

\* uint16_t new_col[15]
NewColSize == 15

Vals == 0 .. MaxVal

VARIABLES
    width, height, ksize,   \* the arguments of the call
    src,                    \* the input grid, row-major
    dst,                    \* the output buffer, row-major
    junk,                   \* what memory outside the input grid holds
    pc,                     \* the statement the call is at
    win,                    \* the malloc'ed window ( << >> while not allocated)
    r, c,                   \* the row and column loop variables
    i,                      \* the loop variable of the insertion loop
    new_col,                \* the slots of new_col written by the fetch loop
    \* history variables: they record what the call did and steer nothing
    alloc,                  \* "none", or what malloc returned: "ok" or "null"
    nreads,                 \* the number of calls of getp so far
    wlog,                   \* the dst indices written, in order
    slideStart,             \* the window when the current column slide began
    rmCount, insCount,      \* removals and insertions of the current slide
    acc                     \* the array indices the last step accessed

vars == << width, height, ksize, src, dst, junk, pc, win, r, c, i, new_col,
           alloc, nreads, wlog, slideStart, rmCount, insCount, acc >>

\* ------------------------------------------------------- pure functions

\* const size_t half = ksize / 2;
Half(k) == k \div 2

\* const size_t win_area = ksize * ksize;
WinArea(k) == k * k

\* The test of the first statement: ksize % 2 == 0.
IsEven(k) == k % 2 = 0

\* The loop of bisect_left with its comparison reversed.
RECURSIVE bisect_loop_reversed(_, _, _, _)
bisect_loop_reversed(arr, lo, hi, val) ==
    IF lo < hi
    THEN LET mid == (lo + hi) \div 2
         IN  IF arr[mid + 1] > val
             THEN bisect_loop_reversed(arr, mid + 1, hi, val)
             ELSE bisect_loop_reversed(arr, lo, mid, val)
    ELSE lo

\* bisect_left: the loop "while (lo < hi)", from the state (lo, hi).
RECURSIVE bisect_loop(_, _, _, _)
bisect_loop(arr, lo, hi, val) ==
    IF lo < hi
    THEN LET mid == (lo + hi) \div 2
         IN  IF arr[mid + 1] < val
             THEN bisect_loop(arr, mid + 1, hi, val)
             ELSE bisect_loop(arr, lo, mid, val)
    ELSE lo

bisect_left(arr, n, val) == bisect_loop(arr, 0, n, val)

\* The indices arr[mid] that bisect_left reads.
RECURSIVE bisect_probes(_, _, _, _)
bisect_probes(arr, lo, hi, val) ==
    IF lo < hi
    THEN LET mid == (lo + hi) \div 2
         IN  {mid} \cup (IF arr[mid + 1] < val
                         THEN bisect_probes(arr, mid + 1, hi, val)
                         ELSE bisect_probes(arr, lo, mid, val))
    ELSE {}

\* A reflection that is off by two at the far edge.
reflect_far_edge(x, extent) ==
    IF x < 0 THEN -x
    ELSE IF x >= extent THEN 2 * extent - x
    ELSE x

\* getp, one axis: "if (r < 0) r = -r; else if ((size_t)r >= height)
\* r = (int)(2 * height - r - 2);"
reflect(x, extent) ==
    IF x < 0 THEN -x
    ELSE IF x >= extent THEN 2 * extent - x - 2
    ELSE x

\* getp: the index r * width + c after both reflections.
getp_index(w, h, row, col) == reflect(row, h) * w + reflect(col, w)

InGrid(w, h, idx) == idx >= 0 /\ idx < w * h

\* getp: the value read; memory outside the grid holds jk.
getp(s, w, h, row, col, jk) ==
    LET idx == getp_index(w, h, row, col)
    IN  IF InGrid(w, h, idx) THEN s[idx + 1] ELSE jk

\* The loops "for dr ... for dc ... win[idx++] = getp(src, width, height,
\* row + dr, 0 + dc)": slot idx holds dr = idx / ksize - half and
\* dc = idx % ksize - half.
WindowRow(k, idx, row) == row + (idx \div k) - Half(k)
WindowCol(k, idx) == 0 + (idx % k) - Half(k)

FetchWindow(s, w, h, k, row, jk) ==
    [n \in 1 .. WinArea(k) |->
        getp(s, w, h, WindowRow(k, n - 1, row), WindowCol(k, n - 1), jk)]

WindowIndices(w, h, k, row) ==
    {getp_index(w, h, WindowRow(k, n, row), WindowCol(k, n)) :
        n \in 0 .. WinArea(k) - 1}

\* qsort(win, win_area, sizeof(uint16_t), cmp_uint16): ascending order.
qsort(a) == SortSeq(a, LAMBDA x, y : x < y)

\* "for (i = pos; i < win_area - 1; ++i) win[i] = win[i + 1];"
ShiftDown(a, n, pos) ==
    [j \in 1 .. n |-> IF j - 1 >= pos /\ j - 1 < n - 1 THEN a[j + 1] ELSE a[j]]

\* A new column one further to the right.
NewColumnNext(col, k) == col + Half(k) + 1

\* The column the fetch loop reads for output column col: cc = c + half.
NewColumn(col, k) == col + Half(k)

\* "for dr ... new_col[dr + half] = getp(src, width, height, r + dr, c + half)"
FetchColumn(s, w, h, k, row, col, jk) ==
    [n \in 1 .. k |->
        getp(s, w, h, row + (n - 1) - Half(k), NewColumn(col, k), jk)]

ColumnIndices(w, h, k, row, col) ==
    {getp_index(w, h, row + n - Half(k), NewColumn(col, k)) : n \in 0 .. k - 1}

\* An insertion that overwrites the slot it finds and shifts nothing.
InsertOverwrite(a, n, val) ==
    LET ins_pos == bisect_left(a, n - 1, val)
    IN  [j \in 1 .. n |-> IF j - 1 = ins_pos THEN val ELSE a[j]]

\* One pass of the insertion loop: "ins_pos = bisect_left(win, win_area - 1,
\* val); for (j = win_area - 1; j > ins_pos; --j) win[j] = win[j - 1];
\* win[ins_pos] = val;"
InsertOne(a, n, val) ==
    LET ins_pos == bisect_left(a, n - 1, val)
    IN  [j \in 1 .. n |->
            IF j - 1 > ins_pos THEN a[j - 1]
            ELSE IF j - 1 = ins_pos THEN val
            ELSE a[j]]

\* The median slot: win[half * ksize + half].
MedianIndex(k) == Half(k) * k + Half(k)

\* A dst index that walks the grid column by column.
DstIndexColumnMajor(w, h, row, col) == col * h + row

\* The slot written for the pixel (row, col): dst[r * width + c].
DstIndex(w, h, row, col) == row * w + col

\* A memcpy that forgets sizeof(uint16_t) and copies half of the samples.
memcpy_bytes(d, s, n) ==
    [j \in 1 .. Len(d) |-> IF j <= n \div 2 THEN s[j] ELSE d[j]]

\* memcpy(dst, src, width * height * sizeof(uint16_t)): n samples.
memcpy(d, s, n) == [j \in 1 .. Len(d) |-> IF j <= n THEN s[j] ELSE d[j]]

\* The output buffer as the caller hands it over: every slot holds a value
\* that is no sample of the input.
Prefill(w, h) == [n \in 1 .. w * h |-> MaxVal + 1]

NoAccess == [src |-> {}, win |-> {}, new_col |-> {}, dst |-> {}]

\* ----------------------------------------------------------- the call

\* Some read of the call falls outside the grid: the radius reaches past an
\* extent, so that one reflection does not bring every coordinate back.
MayReadOutside(w, h, k) == ~IsEven(k) /\ (Half(k) >= w \/ Half(k) >= h)

\* The state when median_filter_uint16(s, dst, w, h, k) is entered.
Entry(w, h, k, s) ==
    /\ width = w /\ height = h /\ ksize = k /\ src = s
    /\ dst = Prefill(w, h)
    /\ junk \in (IF MayReadOutside(w, h, k) THEN Vals ELSE {0})
    /\ pc = "start"
    /\ win = << >> /\ r = 0 /\ c = 0 /\ i = 0 /\ new_col = << >>
    /\ alloc = "none" /\ nreads = 0 /\ wlog = << >>
    /\ slideStart = << >> /\ rmCount = 0 /\ insCount = 0
    /\ acc = NoAccess

\* Every grid of at most MaxCells samples over Vals, every ksize up to
\* MaxKsize.
Init ==
    \E w \in 1 .. MaxCells, h \in 1 .. MaxCells :
        /\ w * h <= MaxCells
        /\ \E k \in 0 .. MaxKsize, s \in [1 .. w * h -> Vals] : Entry(w, h, k, s)

\* The example image of main, 5 x 4, row-major.
ExampleGrid ==
    << 10, 12, 13, 15, 17,
        9, 11, 14, 16, 18,
       20, 22, 23, 25, 27,
       19, 21, 24, 26, 28 >>

\* A w x h grid with repeated and unordered samples, one for each seed.
PatternGrid(w, h, seed) ==
    [n \in 1 .. w * h |-> ((n - 1) * (n + seed) + (n - 1) \div w) % (MaxVal + 2)]

\* Larger grids, ksize up to the size of new_col: every extent up to
\* MaxEnvDim filled by a pattern, and the call of main.
InitEnvelope ==
    \/ \E w \in 1 .. MaxEnvDim, h \in 1 .. MaxEnvDim, k \in 0 .. NewColSize,
          seed \in 0 .. MaxSeed :
            Entry(w, h, k, PatternGrid(w, h, seed))
    \/ Entry(5, 4, 3, ExampleGrid)

N == WinArea(ksize)

\* "if (ksize % 2 == 0) { memcpy(...); return; }"
EvenCopy ==
    /\ pc = "start" /\ IsEven(ksize)
    /\ dst' = memcpy(dst, src, width * height)
    /\ wlog' = wlog \o [n \in 1 .. width * height |-> n - 1]
    /\ acc' = [NoAccess EXCEPT !.src = 0 .. width * height - 1,
                              !.dst = 0 .. width * height - 1]
    /\ pc' = "done"
    /\ UNCHANGED << width, height, ksize, src, junk, win, r, c, i, new_col,
                    alloc, nreads, slideStart, rmCount, insCount >>

\* A failed allocation that clears the output before it returns.
AllocFailClears ==
    /\ pc = "start" /\ ~IsEven(ksize)
    /\ alloc' = "null"
    /\ dst' = [n \in 1 .. width * height |-> 0]
    /\ pc' = "done"
    /\ UNCHANGED << width, height, ksize, src, junk, win, r, c, i, new_col,
                    nreads, wlog, slideStart, rmCount, insCount, acc >>

\* "win = malloc(...); if (!win) return;" with malloc returning NULL.
AllocFail ==
    /\ pc = "start" /\ ~IsEven(ksize)
    /\ alloc' = "null"
    /\ pc' = "done"
    /\ UNCHANGED << width, height, ksize, src, dst, junk, win, r, c, i, new_col,
                    nreads, wlog, slideStart, rmCount, insCount, acc >>

\* malloc succeeds; the window of pixel (0, 0) is fetched and sorted.
BuildInitial ==
    /\ pc = "start" /\ ~IsEven(ksize)
    /\ alloc' = "ok"
    /\ win' = qsort(FetchWindow(src, width, height, ksize, 0, junk))
    /\ nreads' = nreads + N
    /\ acc' = [NoAccess EXCEPT !.src = WindowIndices(width, height, ksize, 0),
                              !.win = 0 .. N - 1]
    /\ r' = 0
    /\ pc' = "col0"
    /\ UNCHANGED << width, height, ksize, src, dst, junk, c, i, new_col,
                    wlog, slideStart, rmCount, insCount >>

\* "dst[r * width] = win[half * ksize + half];" and the entry of the column
\* loop, "c = 1; c < width".
WriteFirst ==
    /\ pc = "col0"
    /\ dst' = [dst EXCEPT ![DstIndex(width, height, r, 0) + 1] =
                              win[MedianIndex(ksize) + 1]]
    /\ wlog' = Append(wlog, DstIndex(width, height, r, 0))
    /\ acc' = [NoAccess EXCEPT !.win = {MedianIndex(ksize)},
                              !.dst = {DstIndex(width, height, r, 0)}]
    /\ c' = 1
    /\ pc' = IF 1 < width THEN "remove" ELSE "rowend"
    /\ UNCHANGED << width, height, ksize, src, junk, win, r, i, new_col,
                    alloc, nreads, slideStart, rmCount, insCount >>

\* "pos = bisect_left(win, win_area, win[0]); for (i = pos; ...) win[i] =
\* win[i + 1];"
RemoveSmallest ==
    /\ pc = "remove"
    /\ LET pos == bisect_left(win, N, win[1])
       IN  /\ win' = ShiftDown(win, N, pos)
           /\ acc' = [NoAccess EXCEPT !.win =
                        {0} \cup bisect_probes(win, 0, N, win[1])
                            \cup (pos .. N - 2)
                            \cup {j + 1 : j \in pos .. N - 2}]
    /\ slideStart' = win
    /\ rmCount' = 1
    /\ insCount' = 0
    /\ pc' = "fetch"
    /\ UNCHANGED << width, height, ksize, src, dst, junk, r, c, i, new_col,
                    alloc, nreads, wlog >>

\* The loop that fills new_col from column c + half.
Fetch ==
    /\ pc = "fetch"
    /\ new_col' = FetchColumn(src, width, height, ksize, r, c, junk)
    /\ nreads' = nreads + ksize
    /\ acc' = [NoAccess EXCEPT !.src = ColumnIndices(width, height, ksize, r, c),
                              !.new_col = 0 .. ksize - 1]
    /\ i' = 0
    /\ pc' = "insert"
    /\ UNCHANGED << width, height, ksize, src, dst, junk, win, r, c,
                    alloc, wlog, slideStart, rmCount, insCount >>

\* One pass of "for (i = 0; i < ksize; ++i)": new_col[i] goes into win.
Insert ==
    /\ pc = "insert"
    /\ LET val == new_col[i + 1]
           ins_pos == bisect_left(win, N - 1, val)
       IN  /\ win' = InsertOne(win, N, val)
           /\ acc' = [NoAccess EXCEPT !.new_col = {i},
                        !.win = {ins_pos} \cup bisect_probes(win, 0, N - 1, val)
                                \cup (ins_pos + 1 .. N - 1)
                                \cup {j - 1 : j \in ins_pos + 1 .. N - 1}]
    /\ insCount' = insCount + 1
    /\ i' = i + 1
    /\ pc' = IF i + 1 < ksize THEN "insert" ELSE "write"
    /\ UNCHANGED << width, height, ksize, src, dst, junk, r, c, new_col,
                    alloc, nreads, wlog, slideStart, rmCount >>

\* "dst[r * width + c] = win[half * ksize + half];" and "++c; c < width".
WriteMedian ==
    /\ pc = "write"
    /\ dst' = [dst EXCEPT ![DstIndex(width, height, r, c) + 1] =
                              win[MedianIndex(ksize) + 1]]
    /\ wlog' = Append(wlog, DstIndex(width, height, r, c))
    /\ acc' = [NoAccess EXCEPT !.win = {MedianIndex(ksize)},
                              !.dst = {DstIndex(width, height, r, c)}]
    /\ c' = c + 1
    /\ pc' = IF c + 1 < width THEN "remove" ELSE "rowend"
    /\ UNCHANGED << width, height, ksize, src, junk, win, r, i, new_col,
                    alloc, nreads, slideStart, rmCount, insCount >>

\* A row change that keeps the window of the row it leaves.
RebuildSkipped ==
    /\ pc = "rowend" /\ r + 1 < height
    /\ r' = r + 1
    /\ pc' = "col0"
    /\ UNCHANGED << width, height, ksize, src, dst, junk, win, c, i, new_col,
                    alloc, nreads, wlog, slideStart, rmCount, insCount, acc >>

\* "if (r + 1 < height) { ... rebuild ...; qsort(...); }" and "++r".
Rebuild ==
    /\ pc = "rowend" /\ r + 1 < height
    /\ win' = qsort(FetchWindow(src, width, height, ksize, r + 1, junk))
    /\ nreads' = nreads + N
    /\ acc' = [NoAccess EXCEPT !.src = WindowIndices(width, height, ksize, r + 1),
                              !.win = 0 .. N - 1]
    /\ r' = r + 1
    /\ pc' = "col0"
    /\ UNCHANGED << width, height, ksize, src, dst, junk, c, i, new_col,
                    alloc, wlog, slideStart, rmCount, insCount >>

\* The last row is done: "free(win);" and the function returns.
Return ==
    /\ pc = "rowend" /\ ~(r + 1 < height)
    /\ win' = << >>
    /\ acc' = NoAccess
    /\ pc' = "done"
    /\ UNCHANGED << width, height, ksize, src, dst, junk, r, c, i, new_col,
                    alloc, nreads, wlog, slideStart, rmCount, insCount >>

\* The src indices the statement at pc is about to read.
PendingReads ==
    IF pc = "start" /\ ~IsEven(ksize) THEN WindowIndices(width, height, ksize, 0)
    ELSE IF pc = "fetch" THEN ColumnIndices(width, height, ksize, r, c)
    ELSE IF pc = "rowend" /\ r + 1 < height
         THEN WindowIndices(width, height, ksize, r + 1)
    ELSE {}

\* "return src[r * width + c];" with an index outside the grid: the read may
\* end the call.
Crash ==
    /\ \E idx \in PendingReads : ~InGrid(width, height, idx)
    /\ acc' = [NoAccess EXCEPT !.src = PendingReads]
    /\ alloc' = IF pc = "start" THEN "ok" ELSE alloc
    /\ pc' = "crashed"
    /\ UNCHANGED << width, height, ksize, src, dst, junk, win, r, c, i, new_col,
                    nreads, wlog, slideStart, rmCount, insCount >>

Next ==
    \/ EvenCopy
    \/ AllocFail
    \/ BuildInitial
    \/ WriteFirst
    \/ RemoveSmallest
    \/ Fetch
    \/ Insert
    \/ WriteMedian
    \/ Rebuild
    \/ Return
    \/ Crash

Spec == Init /\ [][Next]_vars

SpecEnvelope == InitEnvelope /\ [][Next]_vars

\* ------------------------------------------------------------ the claims

\* The reference the claims compare with: mirror padding as a coordinate
\* map, and the median by a full sort of the collected neighbourhood.
Mirror(x, extent) ==
    IF x < 0 THEN -x ELSE IF x >= extent THEN 2 * extent - x - 2 ELSE x

\* Every coordinate a window of radius Half(ksize) asks for comes back into
\* the grid by one reflection.
OneReflectionSuffices == Half(ksize) < width /\ Half(ksize) < height

Sample(row, col) == src[Mirror(row, height) * width + Mirror(col, width) + 1]

Neighbourhood(row, col) ==
    [n \in 1 .. ksize * ksize |->
        Sample(row + ((n - 1) \div ksize) - ksize \div 2,
               col + ((n - 1) % ksize) - ksize \div 2)]

Ascending(a) == SortSeq(a, LAMBDA x, y : x < y)

BruteMedian(row, col) ==
    Ascending(Neighbourhood(row, col))[(ksize * ksize + 1) \div 2]

IsSorted(a, n) == \A j \in 1 .. n - 1 : a[j] <= a[j + 1]

SeqBag(a) ==
    [v \in {a[j] : j \in 1 .. Len(a)} |->
        Cardinality({j \in 1 .. Len(a) : a[j] = v})]

Cells == {<< row, col >> : row \in 0 .. height - 1, col \in 0 .. width - 1}

Returned == pc = "done" /\ alloc = "ok"

\* C1: for odd ksize in {3, 5, 7} with ksize/2 < width and ksize/2 < height,
\* every output pixel of the finished call equals the median of its mirror-
\* padded ksize x ksize neighbourhood computed by a full sort.
C1_OutputIsBruteForceMedian ==
    (Returned /\ ksize \in {3, 5, 7} /\ OneReflectionSuffices)
        => \A cell \in Cells :
               dst[cell[1] * width + cell[2] + 1] = BruteMedian(cell[1], cell[2])

\* C2: for even ksize (0 included) the finished call leaves dst equal to src
\* at every cell, has called getp not once and has allocated nothing.
C2_EvenKsizeCopies ==
    (pc = "done" /\ ksize % 2 = 0)
        => /\ Len(dst) = width * height
           /\ \A n \in 1 .. width * height : dst[n] = src[n]
           /\ nreads = 0
           /\ alloc = "none"
           /\ win = << >>

C2_Witness ==
    pc = "done" /\ ksize = 2 /\ width * height = MaxCells /\ dst = src
    /\ \E n \in 1 .. width * height : src[n] # Prefill(width, height)[n]

\* C3: for ksize = 1 every column slide is one removal and one insertion that
\* leave the sample of the pixel itself in the window, and the finished call
\* has dst[r, c] = src[r, c] at every cell.
C3_KsizeOneIsIdentity ==
    ksize = 1 =>
        /\ pc = "col0" => win = << src[r * width + 1] >>
        /\ pc = "write" =>
               rmCount = 1 /\ insCount = 1 /\ win = << src[r * width + c + 1] >>
        /\ pc # "crashed"
        /\ Returned => dst = src

C3_Witness ==
    Returned /\ ksize = 1 /\ width > 1 /\ height > 1 /\ dst = src
    /\ \E n \in 1 .. width * height : src[n] # src[1]

\* C4: for a grid of one row or of one column and every odd ksize not larger
\* than the grid's extent, every sample getp reads lies inside the grid and
\* the call does not end abnormally.
C4_DegenerateGridsReadInside ==
    ((width = 1 \/ height = 1) /\ ksize % 2 = 1
        /\ ksize <= (IF width > height THEN width ELSE height))
        => /\ acc.src \subseteq 0 .. width * height - 1
           /\ pc # "crashed"

\* C5: for odd ksize with the allocation succeeding, the cells of dst are
\* written in row-major order, each once, none outside 0 .. width*height-1,
\* all of them by the time the call returns; src is never modified.
C5_WritesOnceRowMajor ==
    /\ [](alloc = "ok" =>
            /\ \A j \in 1 .. Len(wlog) : wlog[j] = j - 1
            /\ Len(wlog) <= width * height
            /\ Returned => Len(wlog) = width * height)
    /\ [][src' = src]_vars

C5_Witness ==
    Returned /\ ksize = 3 /\ width = 3 /\ height = 2
    /\ wlog = << 0, 1, 2, 3, 4, 5 >>

\* C6: when malloc fails the call returns normally with every cell of dst
\* holding the value the caller put there, and nothing has been written,
\* read or computed.
C6_AllocFailureLeavesOutput ==
    alloc = "null" =>
        /\ pc = "done"
        /\ dst = Prefill(width, height)
        /\ wlog = << >>
        /\ nreads = 0
        /\ win = << >>

C6_Witness ==
    alloc = "null" /\ pc = "done" /\ ksize = 3 /\ width * height = MaxCells

\* The bag of the n smallest values of the ascending sequence a.
SmallestBag(a, n) == SeqBag(SubSeq(a, 1, n))

BagMin(b) == CHOOSE v \in BagToSet(b) : \A u \in BagToSet(b) : v <= u
BagMax(b) == CHOOSE v \in BagToSet(b) : \A u \in BagToSet(b) : v >= u

\* The window bag after the first n fetched values went in: the first one
\* fills the slot the removal freed, every later one displaces the largest.
RECURSIVE SlideBag(_, _, _)
SlideBag(start, col, n) ==
    IF n = 1
    THEN (SeqBag(start) (-) SetToBag({BagMin(SeqBag(start))}))
             (+) SetToBag({col[1]})
    ELSE LET before == SlideBag(start, col, n - 1)
         IN  (before (-) SetToBag({BagMax(before)})) (+) SetToBag({col[n]})

C8_WindowStaysSorted ==
    /\ pc \in {"col0", "write", "remove"} => IsSorted(win, ksize * ksize)
    /\ pc = "remove" => bisect_left(win, ksize * ksize, win[1]) = 0
    /\ pc = "insert" => IsSorted(win, ksize * ksize - 1)

C8_Witness ==
    /\ pc = "remove" /\ ksize = 3 /\ r = 1 /\ c = 2
    /\ IsSorted(win, ksize * ksize) /\ win[1] # win[ksize * ksize]

\* C9: wherever one reflection suffices, the window at the write of column 0
\* of row r is the ascending sort of the mirror-padded neighbourhood of
\* (r, 0), and every column-0 cell written holds the brute-force median.
C9_RowStartsFromOwnNeighbourhood ==
    (OneReflectionSuffices /\ ksize % 2 = 1) =>
        /\ pc = "col0" => win = Ascending(Neighbourhood(r, 0))
        /\ \A row \in 0 .. height - 1 :
               (\E j \in 1 .. Len(wlog) : wlog[j] = row * width)
                   => dst[row * width + 1] = BruteMedian(row, 0)

C9_Witness ==
    /\ pc = "col0" /\ ksize = 3 /\ OneReflectionSuffices /\ r = 1 /\ width = 3
    /\ win = Ascending(Neighbourhood(1, 0))
    /\ dst[2] # BruteMedian(0, 1)

\* C10: for odd ksize <= 15 with ksize/2 < width and ksize/2 < height every
\* array access of the call is in bounds: src reads in 0 .. width*height-1,
\* win indices in 0 .. ksize*ksize-1, new_col indices in 0 .. 14, dst writes
\* in 0 .. width*height-1.
C10_AccessesInBounds ==
    (ksize % 2 = 1 /\ ksize <= NewColSize /\ OneReflectionSuffices) =>
        /\ acc.src \subseteq 0 .. width * height - 1
        /\ acc.win \subseteq 0 .. ksize * ksize - 1
        /\ acc.new_col \subseteq 0 .. NewColSize - 1
        /\ acc.dst \subseteq 0 .. width * height - 1
        /\ pc # "crashed"

C10_Witness ==
    /\ pc = "insert" /\ i = 0 /\ ksize = NewColSize /\ OneReflectionSuffices
    /\ r = height - 1 /\ c = width - 1
    /\ NewColSize - 1 \in acc.new_col
    /\ \E idx \in acc.src : idx = (height - 1) * width

====
